---- MODULE Spec2Model ----
(***************************************************************************)
(* VIDSPACE (src/app.py): the account, follow-graph, video, like,          *)
(* notification and direct-message operations, modelled over the document  *)
(* store of class Database.                                                *)
(*                                                                         *)
(* Every call of a Database method (get_one, get_all, insert, update,      *)
(* delete) is one atomic step; the Python statements between two store     *)
(* calls belong to the step of the store call that precedes them.  A       *)
(* handler is therefore a chain of steps, and the handlers of different    *)
(* browser sessions (Streamlit runs each session's script in a thread of   *)
(* its own against the one store) interleave between store calls.  A       *)
(* specification with a single session runs every handler to completion    *)
(* before the next one starts.                                             *)
(***************************************************************************)
EXTENDS Integers, Sequences, FiniteSets, TLC

VARIABLES
    use_cloud,      \* Database.use_cloud: MongoDB (TRUE) or local JSON files
    accounts,       \* collection 'accounts': username -> document
    videos,         \* collection 'videos': documents in storage order
    interactions,   \* collection 'interactions': username -> document
    messages,       \* collection 'messages': documents in storage order
    clock,          \* what datetime.now() returns
    next_id,        \* number of identifiers create_id has handed out
    pc,             \* session -> the store call it is about to make
    loc,            \* session -> the local variables of its handler
    universe,       \* the inputs of the run: the handles a session acts as
                    \* (users) and the handles, passwords and unknown
                    \* video identifiers it passes
    budget,         \* handler calls the sessions may still start
    crashed,        \* some handler was abandoned between two store calls
    last,           \* session -> the call it completed last (history)
    chain           \* the run of toggle_like calls in progress (history)

vars == <<use_cloud, accounts, videos, interactions, messages, clock, next_id,
          pc, loc, universe, budget, crashed, last, chain>>

env == <<use_cloud, clock, next_id, universe>>

db == <<accounts, videos, interactions, messages>>

(***************************************************************************)
(* Bounds of the model.                                                    *)
(***************************************************************************)
MaxOps == 2          \* handler calls in the concurrent specification
MaxSeqOps == 3       \* handler calls in the sequential specification
MaxVideos == 2       \* identifiers create_id("vid") hands out in a run
MaxMsgOps == 2       \* handler calls in the messaging specification
MaxClock == 2        \* clock readings 0..MaxClock
MaxNotifOps == 3     \* handler calls in the notification specification
PrefillSlack == 2    \* the shortest initial log has NotifCap - PrefillSlack entries
MaxAuthOps == 3      \* handler calls in the sign-up and login specification
MaxDeleteOps == 3    \* handler calls in the deletion specification
MaxFrameOps == 3     \* handler calls in the follow and unfollow specification

(***************************************************************************)
(* Python list and string helpers.                                         *)
(***************************************************************************)
\* x in lst
Contains(lst, x) == \E i \in DOMAIN lst : lst[i] = x

\* lst.remove(x): drops the first occurrence (the caller checks Contains)
RemoveFirst(lst, x) ==
    LET i == CHOOSE k \in DOMAIN lst :
                 lst[k] = x /\ \A j \in 1..(k - 1) : lst[j] # x
    IN SubSeq(lst, 1, i - 1) \o SubSeq(lst, i + 1, Len(lst))

\* lst[-n:]
LastN(lst, n) ==
    IF Len(lst) <= n THEN lst ELSE SubSeq(lst, Len(lst) - n + 1, Len(lst))

\* the members of a list
Elems(lst) == {lst[i] : i \in DOMAIN lst}

\* how many times x occurs in lst
Count(lst, x) == Cardinality({i \in DOMAIN lst : lst[i] = x})

Max(x, y) == IF x >= y THEN x ELSE y

(***************************************************************************)
(* Values.                                                                 *)
(***************************************************************************)
NotifCap == 50       \* notifications[-50:]

NoHandle == ""
NoVideo == ""

\* create_id("vid"): the n-th identifier handed out.  The identifier is built
\* from the clock reading and a hash of it; distinct calls are taken to give
\* distinct identifiers.
VideoIds == <<"v1", "v2", "v3", "v4">>
create_id(n) == VideoIds[n]

\* hash_password: a one-way image of the password
hash_password(password) == <<"sha256", password>>

NoMessage ==
    [chat_id |-> <<>>, sender |-> NoHandle, recipient |-> NoHandle,
     text |-> "", video_id |-> NoVideo, timestamp |-> 0, read |-> FALSE]

NoEntry ==
    [text |-> <<>>, timestamp |-> 0, read |-> FALSE, link_type |-> "",
     link_id |-> ""]

\* the dictionary add_notification appends
NewEntry(text, now, link_type, link_id) ==
    [text |-> text, timestamp |-> now, read |-> FALSE, link_type |-> link_type,
     link_id |-> link_id]

\* the document create_account inserts
NewAccount(password, now) ==
    [password |-> hash_password(password), created |-> now, bio |-> "",
     followers |-> <<>>, following |-> <<>>, notifications |-> <<>>]

\* the document upload_video inserts
NewVideo(id, username, now) ==
    [id |-> id, username |-> username, timestamp |-> now, likes |-> 0,
     views |-> 0, comments |-> <<>>]

(***************************************************************************)
(* class Database.  'accounts' and 'interactions' are keyed by username;   *)
(* 'videos' and 'messages' keep their documents in insertion order.        *)
(***************************************************************************)
\* Database.insert of a document whose key is already stored: the local
\* store overwrites data[key]; MongoDB adds a second document, which find_one
\* and update_one (first match) never reach.
InsertKeyed(coll, key, doc) ==
    IF use_cloud /\ key \in DOMAIN coll THEN coll ELSE (key :> doc) @@ coll

\* Database.get_one('videos', 'id', video_id): the position of the document
HasVideo(video_id) == \E i \in DOMAIN videos : videos[i].id = video_id
VideoIndex(video_id) == CHOOSE i \in DOMAIN videos : videos[i].id = video_id
GetVideo(video_id) == videos[VideoIndex(video_id)]

\* Database.update('videos', 'id', video_id, {'likes': n}): merges the field
\* into the first matching document, and does nothing when there is none
UpdateVideoLikes(video_id, n) ==
    IF HasVideo(video_id)
    THEN [videos EXCEPT ![VideoIndex(video_id)].likes = n]
    ELSE videos

\* Database.update('accounts', 'username', u, {field: value})
UpdateFollowing(u, lst) ==
    IF u \in DOMAIN accounts
    THEN [accounts EXCEPT ![u].following = lst] ELSE accounts

UpdateFollowers(u, lst) ==
    IF u \in DOMAIN accounts
    THEN [accounts EXCEPT ![u].followers = lst] ELSE accounts

UpdateNotifications(u, lst) ==
    IF u \in DOMAIN accounts
    THEN [accounts EXCEPT ![u].notifications = lst] ELSE accounts

\* Database.update('interactions', 'username', u, {'likes': lst})
UpdateLikes(u, lst) ==
    IF u \in DOMAIN interactions
    THEN [interactions EXCEPT ![u].likes = lst] ELSE interactions

(***************************************************************************)
(* Sessions.                                                               *)
(***************************************************************************)
SessionIds == {1, 2}

\* the four collections as a handler finds them when it is called (history:
\* kept only when the run keeps a history)
NoSnapshot ==
    [accounts |-> <<>>, videos |-> <<>>, interactions |-> <<>>,
     messages |-> <<>>]

Snapshot ==
    IF universe.history
    THEN [accounts |-> accounts, videos |-> videos,
          interactions |-> interactions, messages |-> messages]
    ELSE NoSnapshot

\* what a handler returns when it has no return statement: None
None == <<"None">>

\* the local variables of a handler that has not read anything yet
Blank(op, user, other, video_id) ==
    [op |-> op, user |-> user, other |-> other, video_id |-> video_id,
     result |-> None, before |-> NoSnapshot,
     found |-> FALSE,
     following_list |-> <<>>, followers_list |-> <<>>,
     likes |-> <<>>, video_likes |-> 0,
     target |-> NoHandle, entry |-> NoEntry, notifications |-> <<>>,
     ret |-> "idle", pending |-> <<>>,
     password |-> "", owner |-> NoHandle, comments |-> <<>>,
     message |-> NoMessage]

\* the local variables of a handler that is called now
Fresh(op, user, other, video_id) ==
    [Blank(op, user, other, video_id) EXCEPT !.before = Snapshot]

NoLocals == Blank("none", NoHandle, NoHandle, NoVideo)

NoCall == [op |-> "none", user |-> NoHandle, other |-> NoHandle,
           video_id |-> NoVideo, password |-> "", status |-> "none",
           result |-> None, before |-> NoSnapshot]

Idle(s) == pc[s] = "idle"
AllIdle == \A s \in SessionIds : Idle(s)

\* a session starts a handler: one call out of the budget
Begin(s) ==
    /\ Idle(s)
    /\ budget > 0
    /\ budget' = budget - 1

\* go on to the next store call with the local variables l
Goto(s, label, l) ==
    /\ pc' = [pc EXCEPT ![s] = label]
    /\ loc' = [loc EXCEPT ![s] = l]
    /\ UNCHANGED last

\* the handler returns (status "returned", or "failed" when it returns its
\* failure value), raises ("raised") or is abandoned ("crashed"); the call is
\* recorded, with its return value and the collections as it found them,
\* when the run keeps a history
FinishCall(s, l, status) ==
    /\ pc' = [pc EXCEPT ![s] = "idle"]
    /\ loc' = [loc EXCEPT ![s] = NoLocals]
    /\ last' = IF universe.history
               THEN [last EXCEPT ![s] =
                        [op |-> l.op, user |-> l.user, other |-> l.other,
                         video_id |-> l.video_id, password |-> l.password,
                         status |-> status, result |-> l.result,
                         before |-> l.before]]
               ELSE last

Finish(s, status) == FinishCall(s, loc[s], status)

\* add_notification has returned to its caller: the handler goes on at label
\* ret, returns when nothing is left to do ("idle"), or, in the loop of
\* upload_video ("up3"), notifies the next follower
Continue(s, l, ret) ==
    IF ret = "idle"
    THEN Finish(s, "returned")
    ELSE IF ret = "up3"
         THEN IF l.pending = <<>>
              THEN Finish(s, "returned")
              ELSE Goto(s, "n1", [l EXCEPT !.target = Head(l.pending),
                                           !.pending = Tail(l.pending)])
         ELSE Goto(s, ret, l)

(***************************************************************************)
(* add_notification(username, notification_text, link_type, link_id)       *)
(***************************************************************************)
\* mutant: notifications[:50], which drops the newest entry
NotificationsAfter_head(notifications, entry) ==
    SubSeq(Append(notifications, entry), 1,
           IF Len(notifications) + 1 <= NotifCap
           THEN Len(notifications) + 1 ELSE NotifCap)

\* notifications.append(entry); notifications = notifications[-50:]
NotificationsAfter(notifications, entry) ==
    LastN(Append(notifications, entry), NotifCap)

\* the caller's step: enter add_notification with these arguments, and go on
\* at ret when it returns
CallNotify(s, l, target, text, link_type, link_id, ret) ==
    Goto(s, "n1", [l EXCEPT !.target = target,
                            !.entry = NewEntry(text, 0, link_type, link_id),
                            !.ret = ret])

\* account = db.get_one(...); if account: append, cut to the last 50
AddNotification_get(s) ==
    /\ pc[s] = "n1"
    /\ IF loc[s].target \in DOMAIN accounts
       THEN Goto(s, "n2",
                 [loc[s] EXCEPT !.notifications =
                     NotificationsAfter(
                         accounts[loc[s].target].notifications,
                         [loc[s].entry EXCEPT !.timestamp = clock])])
       ELSE Continue(s, loc[s], loc[s].ret)
    /\ UNCHANGED <<env, db, budget, crashed, chain>>

\* db.update('accounts', 'username', username, {'notifications': ...})
AddNotification_update(s) ==
    /\ pc[s] = "n2"
    /\ accounts' = UpdateNotifications(loc[s].target, loc[s].notifications)
    /\ Continue(s, [loc[s] EXCEPT !.notifications = <<>>], loc[s].ret)
    /\ UNCHANGED <<env, videos, interactions, messages, budget, crashed, chain>>

(***************************************************************************)
(* The run of consecutive toggle_like calls of one caller on one existing  *)
(* video (a history variable): the caller's liked-state and the like       *)
(* counter before the latest call (liked, likes) and before the call that  *)
(* preceded it (liked_before, likes_before), and the number n of calls of  *)
(* the run that have completed, counted up to 2.  Any other call ends the  *)
(* run.                                                                    *)
(***************************************************************************)
NoChain == [user |-> NoHandle, video_id |-> NoVideo, liked |-> FALSE,
            likes |-> 0, liked_before |-> FALSE, likes_before |-> 0, n |-> 0]

Liked(username, video_id) ==
    /\ username \in DOMAIN interactions
    /\ Contains(interactions[username].likes, video_id)

ChainAtToggle(username, video_id) ==
    IF ~universe.history \/ ~HasVideo(video_id)
    THEN NoChain
    ELSE LET now == [user |-> username, video_id |-> video_id,
                     liked |-> Liked(username, video_id),
                     likes |-> GetVideo(video_id).likes,
                     liked_before |-> FALSE, likes_before |-> 0, n |-> 0]
         IN IF chain.user = username /\ chain.video_id = video_id
               /\ chain.n >= 1
            THEN [now EXCEPT !.liked_before = chain.liked,
                             !.likes_before = chain.likes,
                             !.n = 1]
            ELSE now

ChainAfterToggle ==
    IF chain = NoChain THEN chain ELSE [chain EXCEPT !.n = chain.n + 1]

(***************************************************************************)
(* get_unread_notifications_count(username) and                            *)
(* mark_notifications_read(username)                                       *)
(***************************************************************************)
\* sum(1 for n in account.get('notifications', []) if not n.get('read', False))
get_unread_notifications_count(username) ==
    IF username \in DOMAIN accounts
    THEN Cardinality({i \in DOMAIN accounts[username].notifications :
                         ~accounts[username].notifications[i].read})
    ELSE 0

\* mutant: only the first entry is marked
MarkAllRead_first(notifications) ==
    [i \in DOMAIN notifications |->
        IF i = 1 THEN [notifications[i] EXCEPT !.read = TRUE]
                 ELSE notifications[i]]

\* for n in notifications: n['read'] = True
MarkAllRead(notifications) ==
    [i \in DOMAIN notifications |-> [notifications[i] EXCEPT !.read = TRUE]]

\* account = db.get_one(...); if account: mark every entry
MarkNotificationsRead_get(s) ==
    \E username \in universe.users[s] :
        /\ Begin(s)
        /\ LET l == Fresh("mark_notifications_read", username, NoHandle,
                          NoVideo)
           IN IF username \in DOMAIN accounts
              THEN Goto(s, "mr2",
                        [l EXCEPT !.notifications =
                            MarkAllRead(accounts[username].notifications)])
              ELSE FinishCall(s, l, "returned")
        /\ chain' = NoChain
        /\ UNCHANGED <<env, db, crashed>>

\* db.update('accounts', 'username', username, {'notifications': ...})
MarkNotificationsRead_update(s) ==
    /\ pc[s] = "mr2"
    /\ accounts' = UpdateNotifications(loc[s].user, loc[s].notifications)
    /\ Finish(s, "returned")
    /\ UNCHANGED <<env, videos, interactions, messages, budget, crashed, chain>>

(***************************************************************************)
(* follow_user(follower, following)                                        *)
(***************************************************************************)
\* following_list.append(following) / followers_list.append(follower)
ListWith(lst, x) == Append(lst, x)

\* follower_acc = db.get_one('accounts', 'username', follower)
FollowUser_get_follower(s) ==
    \E follower \in universe.users[s], following \in universe.handles :
        /\ Begin(s)
        /\ Goto(s, "f2",
                [Fresh("follow_user", follower, following, NoVideo)
                    EXCEPT !.found = follower \in DOMAIN accounts,
                           !.following_list =
                               IF follower \in DOMAIN accounts
                               THEN accounts[follower].following ELSE <<>>])
        /\ chain' = NoChain
        /\ UNCHANGED <<env, db, crashed>>

\* following_acc = db.get_one(...); the two guards; the two appends
FollowUser_get_following(s) ==
    /\ pc[s] = "f2"
    /\ IF /\ loc[s].found
          /\ loc[s].other \in DOMAIN accounts
          /\ ~Contains(loc[s].following_list, loc[s].other)
       THEN Goto(s, "f3",
                 [loc[s] EXCEPT
                     !.following_list =
                         ListWith(loc[s].following_list, loc[s].other),
                     !.followers_list =
                         ListWith(accounts[loc[s].other].followers,
                                  loc[s].user)])
       ELSE Finish(s, "returned")
    /\ UNCHANGED <<env, db, budget, crashed, chain>>

\* db.update('accounts', 'username', follower, {'following': following_list})
FollowUser_update_follower(s) ==
    /\ pc[s] = "f3"
    /\ accounts' = UpdateFollowing(loc[s].user, loc[s].following_list)
    /\ Goto(s, "f4", loc[s])
    /\ UNCHANGED <<env, videos, interactions, messages, budget, crashed, chain>>

\* mutant: the notification goes to the follower
FollowUser_update_following_self(s) ==
    /\ pc[s] = "f4"
    /\ accounts' = UpdateFollowers(loc[s].other, loc[s].followers_list)
    /\ CallNotify(s, loc[s], loc[s].user,
                  <<"started following you", loc[s].user>>,
                  "profile", loc[s].user, "idle")
    /\ UNCHANGED <<env, videos, interactions, messages, budget, crashed, chain>>

\* db.update('accounts', 'username', following, {'followers': followers_list})
\* and the call of add_notification(following, ...)
FollowUser_update_following(s) ==
    /\ pc[s] = "f4"
    /\ accounts' = UpdateFollowers(loc[s].other, loc[s].followers_list)
    /\ CallNotify(s, loc[s], loc[s].other,
                  <<"started following you", loc[s].user>>,
                  "profile", loc[s].user, "idle")
    /\ UNCHANGED <<env, videos, interactions, messages, budget, crashed, chain>>

(***************************************************************************)
(* unfollow_user(follower, following)                                      *)
(***************************************************************************)
\* mutant: the removal is forgotten
ListWithout_keep(lst, x) == lst

\* following_list.remove(following) / followers_list.remove(follower)
ListWithout(lst, x) == RemoveFirst(lst, x)

UnfollowUser_get_follower(s) ==
    \E follower \in universe.users[s], following \in universe.handles :
        /\ Begin(s)
        /\ Goto(s, "u2",
                [Fresh("unfollow_user", follower, following, NoVideo)
                    EXCEPT !.found = follower \in DOMAIN accounts,
                           !.following_list =
                               IF follower \in DOMAIN accounts
                               THEN accounts[follower].following ELSE <<>>])
        /\ chain' = NoChain
        /\ UNCHANGED <<env, db, crashed>>

\* list.remove raises ValueError when the follower is not in followers_list
UnfollowUser_get_following(s) ==
    /\ pc[s] = "u2"
    /\ IF /\ loc[s].found
          /\ loc[s].other \in DOMAIN accounts
          /\ Contains(loc[s].following_list, loc[s].other)
       THEN IF Contains(accounts[loc[s].other].followers, loc[s].user)
            THEN Goto(s, "u3",
                      [loc[s] EXCEPT
                          !.following_list =
                              ListWithout(loc[s].following_list, loc[s].other),
                          !.followers_list =
                              ListWithout(accounts[loc[s].other].followers,
                                          loc[s].user)])
            ELSE Finish(s, "raised")
       ELSE Finish(s, "returned")
    /\ UNCHANGED <<env, db, budget, crashed, chain>>

UnfollowUser_update_follower(s) ==
    /\ pc[s] = "u3"
    /\ accounts' = UpdateFollowing(loc[s].user, loc[s].following_list)
    /\ Goto(s, "u4", loc[s])
    /\ UNCHANGED <<env, videos, interactions, messages, budget, crashed, chain>>

UnfollowUser_update_following(s) ==
    /\ pc[s] = "u4"
    /\ accounts' = UpdateFollowers(loc[s].other, loc[s].followers_list)
    /\ Finish(s, "returned")
    /\ UNCHANGED <<env, videos, interactions, messages, budget, crashed, chain>>

(***************************************************************************)
(* toggle_like(username, video_id)                                         *)
(***************************************************************************)
\* mutants: the floor at 0 is dropped; the decrement is forgotten
LikesAfterUnlike_unfloored(n) == n - 1

LikesAfterUnlike_keep(n) == n

\* video['likes'] = max(0, video.get('likes', 0) - 1)
LikesAfterUnlike(n) == Max(0, n - 1)

\* mutant: the increment is forgotten
LikesAfterLike_stale(n) == n

\* video['likes'] = video.get('likes', 0) + 1
LikesAfterLike(n) == n + 1

\* mutant: the owner is notified of its own like too
NotifiesOwner_always(video, username) == TRUE

\* if video['username'] != username
NotifiesOwner(video, username) == video.username # username

\* the identifiers a session can pass: those handed out so far, and the
\* identifiers of the universe that name no video
VideoInputs == {create_id(n) : n \in 1..next_id} \cup universe.missing

\* interactions = db.get_one('interactions', 'username', username)
ToggleLike_get_interactions(s) ==
    \E username \in universe.users[s], video_id \in VideoInputs :
        /\ Begin(s)
        /\ Goto(s, IF username \in DOMAIN interactions THEN "t3" ELSE "t2",
                [Fresh("toggle_like", username, NoHandle, video_id)
                    EXCEPT !.likes =
                               IF username \in DOMAIN interactions
                               THEN interactions[username].likes ELSE <<>>])
        /\ chain' = ChainAtToggle(username, video_id)
        /\ UNCHANGED <<env, db, crashed>>

\* db.insert('interactions', {'username': ..., 'likes': [], 'saved': []})
ToggleLike_insert(s) ==
    /\ pc[s] = "t2"
    /\ interactions' = InsertKeyed(interactions, loc[s].user,
                                   [likes |-> <<>>, saved |-> <<>>])
    /\ Goto(s, "t3", loc[s])
    /\ UNCHANGED <<env, accounts, videos, messages, budget, crashed, chain>>

\* video = db.get_one('videos', 'id', video_id) and the branch on
\* video_id in likes
ToggleLike_get_video(s) ==
    /\ pc[s] = "t3"
    /\ IF ~HasVideo(loc[s].video_id)
       THEN Finish(s, "returned")
       ELSE LET video == GetVideo(loc[s].video_id) IN
            IF Contains(loc[s].likes, loc[s].video_id)
            THEN Goto(s, "t4",
                      [loc[s] EXCEPT
                          !.likes = ListWithout(loc[s].likes, loc[s].video_id),
                          !.video_likes = LikesAfterUnlike(video.likes)])
            ELSE LET l == [loc[s] EXCEPT
                              !.likes = ListWith(loc[s].likes, loc[s].video_id),
                              !.video_likes = LikesAfterLike(video.likes)]
                 IN IF NotifiesOwner(video, loc[s].user)
                    THEN CallNotify(s, l, video.username,
                                    <<"liked your video", loc[s].user>>,
                                    "video", loc[s].video_id, "t4")
                    ELSE Goto(s, "t4", l)
    /\ UNCHANGED <<env, db, budget, crashed, chain>>

\* db.update('interactions', 'username', username, {'likes': likes})
ToggleLike_update_interactions(s) ==
    /\ pc[s] = "t4"
    /\ interactions' = UpdateLikes(loc[s].user, loc[s].likes)
    /\ Goto(s, "t5", loc[s])
    /\ UNCHANGED <<env, accounts, videos, messages, budget, crashed, chain>>

\* db.update('videos', 'id', video_id, {'likes': video['likes']})
ToggleLike_update_video(s) ==
    /\ pc[s] = "t5"
    /\ videos' = UpdateVideoLikes(loc[s].video_id, loc[s].video_likes)
    /\ Finish(s, "returned")
    /\ chain' = ChainAfterToggle
    /\ UNCHANGED <<env, accounts, interactions, messages, budget, crashed>>

(***************************************************************************)
(* create_account(username, password)                                      *)
(***************************************************************************)
\* mutant: the lookup never finds the account
AccountExists_never(username) == FALSE

\* db.get_one('accounts', 'username', username) is not None
AccountExists(username) == username \in DOMAIN accounts

\* if db.get_one('accounts', 'username', username): return False, ...
CreateAccount_get(s) ==
    \E username \in universe.handles, password \in universe.passwords :
        /\ Begin(s)
        /\ LET l == [Fresh("create_account", username, NoHandle, NoVideo)
                        EXCEPT !.password = password]
           IN IF AccountExists(username)
              THEN FinishCall(s, [l EXCEPT !.result =
                                     <<"False", "Username already exists">>],
                              "failed")
              ELSE Goto(s, "c2", [l EXCEPT !.result =
                                     <<"True", "Account created!">>])
        /\ chain' = NoChain
        /\ UNCHANGED <<env, db, crashed>>

\* db.insert('accounts', account); return True, ...
CreateAccount_insert(s) ==
    /\ pc[s] = "c2"
    /\ accounts' = InsertKeyed(accounts, loc[s].user,
                               NewAccount(loc[s].password, clock))
    /\ Finish(s, "returned")
    /\ UNCHANGED <<env, videos, interactions, messages, budget, crashed, chain>>

(***************************************************************************)
(* login(username, password)                                               *)
(***************************************************************************)
\* the pair login returns
login(username, password) ==
    IF username \notin DOMAIN accounts
    THEN <<"False", "Username not found">>
    ELSE IF accounts[username].password # hash_password(password)
         THEN <<"False", "Incorrect password">>
         ELSE <<"True", "Login successful!">>

\* account = db.get_one('accounts', 'username', username) and the return
Login(s) ==
    \E username \in universe.handles, password \in universe.passwords :
        /\ Begin(s)
        /\ LET result == login(username, password)
               l == [Fresh("login", username, NoHandle, NoVideo)
                        EXCEPT !.password = password, !.result = result]
           IN FinishCall(s, l, IF result[1] = "True" THEN "returned"
                                                     ELSE "failed")
        /\ chain' = NoChain
        /\ UNCHANGED <<env, db, crashed>>

(***************************************************************************)
(* upload_video(username, video_file, caption, hashtags)                   *)
(***************************************************************************)
\* video_id = create_id("vid"); video_data = media.upload_video(...), which
\* is None when the upload fails and empty for an empty file:
\* if not video_data: return None
UploadVideo_media(s) ==
    \E username \in universe.users[s], video_data \in BOOLEAN :
        /\ Begin(s)
        /\ next_id < MaxVideos
        /\ next_id' = next_id + 1
        /\ LET l == Fresh("upload_video", username, NoHandle,
                          create_id(next_id + 1))
           IN IF video_data
              THEN Goto(s, "up1", [l EXCEPT !.result = <<l.video_id>>])
              ELSE FinishCall(s, l, "failed")
        /\ chain' = NoChain
        /\ UNCHANGED <<use_cloud, clock, universe, db, crashed>>

\* mutant: every follower is notified twice
FollowersToNotify_twice(account) == account.followers \o account.followers

\* for follower in account.get('followers', [])
FollowersToNotify(account) == account.followers

\* db.insert('videos', video)
UploadVideo_insert(s) ==
    /\ pc[s] = "up1"
    /\ videos' = Append(videos, NewVideo(loc[s].video_id, loc[s].user, clock))
    /\ Goto(s, "up2", loc[s])
    /\ UNCHANGED <<env, accounts, interactions, messages, budget, crashed,
                   chain>>

\* account = db.get_one(...); for follower in account.get('followers', []):
\* add_notification(follower, ..., 'video', video_id)
UploadVideo_get_account(s) ==
    /\ pc[s] = "up2"
    /\ IF loc[s].user \in DOMAIN accounts
       THEN LET l == [loc[s] EXCEPT
                         !.pending =
                             FollowersToNotify(accounts[loc[s].user]),
                         !.entry = NewEntry(<<"posted a new video",
                                              loc[s].user>>,
                                            0, "video", loc[s].video_id),
                         !.ret = "up3"]
            IN Continue(s, l, "up3")
       ELSE Finish(s, "returned")
    /\ UNCHANGED <<env, db, budget, crashed, chain>>

(***************************************************************************)
(* add_comment(video_id, username, text)                                   *)
(***************************************************************************)
\* video = db.get_one('videos', 'id', video_id); comments.append({...})
AddComment_get_video(s) ==
    \E username \in universe.users[s], video_id \in VideoInputs :
        /\ Begin(s)
        /\ LET l == Fresh("add_comment", username, NoHandle, video_id)
           IN IF HasVideo(video_id)
              THEN Goto(s, "ac2",
                        [l EXCEPT
                            !.owner = GetVideo(video_id).username,
                            !.comments =
                                Append(GetVideo(video_id).comments,
                                       [username |-> username, text |-> "hi",
                                        timestamp |-> clock])])
              ELSE FinishCall(s, l, "returned")
        /\ chain' = NoChain
        /\ UNCHANGED <<env, db, crashed>>

\* db.update('videos', 'id', video_id, {'comments': comments}) and the
\* notification of the owner
AddComment_update(s) ==
    /\ pc[s] = "ac2"
    /\ videos' = IF HasVideo(loc[s].video_id)
                 THEN [videos EXCEPT ![VideoIndex(loc[s].video_id)].comments =
                                         loc[s].comments]
                 ELSE videos
    /\ IF loc[s].owner # loc[s].user
       THEN CallNotify(s, loc[s], loc[s].owner,
                       <<"commented on your video", loc[s].user>>,
                       "video", loc[s].video_id, "idle")
       ELSE Finish(s, "returned")
    /\ UNCHANGED <<env, accounts, interactions, messages, budget, crashed,
                   chain>>

(***************************************************************************)
(* show_profile_page: the delete button of one of the session user's own   *)
(* videos.  The button is drawn for the videos get_all returns whose       *)
(* username is the session's; a click on it calls db.delete.               *)
(***************************************************************************)
\* mutant: the page lists the videos of every account
UserVideos_all(username) == videos

\* user_videos = [v for v in all_videos.values() if v['username'] == username]
UserVideos(username) == SelectSeq(videos, LAMBDA v : v.username = username)

DeleteVideo_get_all(s) ==
    \E username \in universe.users[s] \cap DOMAIN accounts,
       video_id \in VideoInputs :
        /\ Begin(s)
        /\ LET l == Fresh("delete_video", username, NoHandle, video_id)
           IN IF \E i \in DOMAIN UserVideos(username) :
                    UserVideos(username)[i].id = video_id
              THEN Goto(s, "d2", l)
              ELSE FinishCall(s, l, "returned")
        /\ chain' = NoChain
        /\ UNCHANGED <<env, db, crashed>>

\* db.delete('videos', 'id', video['id'])
DeleteVideo_delete(s) ==
    /\ pc[s] = "d2"
    /\ videos' = SelectSeq(videos, LAMBDA v : v.id # loc[s].video_id)
    /\ Finish(s, "returned")
    /\ UNCHANGED <<env, accounts, interactions, messages, budget, crashed,
                   chain>>

(***************************************************************************)
(* get_feed_videos(username)                                               *)
(***************************************************************************)
\* mutant: a sort that puts the later of two videos of one like count first
RECURSIVE SortByLikes_unstable(_)
SortByLikes_unstable(lst) ==
    IF lst = <<>> THEN <<>>
    ELSE LET front == SortByLikes_unstable(SubSeq(lst, 1, Len(lst) - 1))
             m == lst[Len(lst)]
             k == Cardinality({i \in DOMAIN front : front[i].likes > m.likes})
         IN SubSeq(front, 1, k) \o <<m>> \o SubSeq(front, k + 1, Len(front))

\* sorted(video_list, key=lambda x: x.get('likes', 0), reverse=True): a
\* stable sort, the videos of one like count stay in their order
RECURSIVE SortByLikes(_)
SortByLikes(lst) ==
    IF lst = <<>> THEN <<>>
    ELSE LET front == SortByLikes(SubSeq(lst, 1, Len(lst) - 1))
             m == lst[Len(lst)]
             k == Cardinality({i \in DOMAIN front : front[i].likes >= m.likes})
         IN SubSeq(front, 1, k) \o <<m>> \o SubSeq(front, k + 1, Len(front))

\* [v for v in video_list if v['username'] in following]
FollowingVids(video_list, following) ==
    SelectSeq(video_list, LAMBDA v : Contains(following, v.username))

\* mutant: only the videos somebody likes count as trending
TrendingVids_liked(video_list) ==
    SelectSeq(SortByLikes(video_list), LAMBDA v : v.likes > 0)

TrendingVids(video_list) == SortByLikes(video_list)

\* mutant: the trending videos are appended as they are
CombineFeed_all(following_vids, trending_vids) ==
    following_vids \o trending_vids

\* following_vids + [v for v in trending_vids if v not in following_vids]
CombineFeed(following_vids, trending_vids) ==
    following_vids
    \o SelectSeq(trending_vids, LAMBDA v : ~Contains(following_vids, v))

\* db.get_all('videos') gives the videos in storage order; an unknown
\* viewer follows nobody
get_feed_videos(username) ==
    LET video_list == videos
        following == IF username \in DOMAIN accounts
                     THEN accounts[username].following ELSE <<>>
    IN CombineFeed(FollowingVids(video_list, following),
                   TrendingVids(video_list))

(***************************************************************************)
(* Direct messages.                                                        *)
(***************************************************************************)
\* the characters of the handles of the model
Chars(handle) ==
    CASE handle = "a" -> <<"a">>
      [] handle = "b" -> <<"b">>
      [] handle = "c" -> <<"c">>
      [] handle = "a_b" -> <<"a", "_", "b">>
      [] handle = "b_c" -> <<"b", "_", "c">>

\* ord(ch)
CharCode(ch) ==
    CASE ch = "_" -> 95
      [] ch = "a" -> 97
      [] ch = "b" -> 98
      [] ch = "c" -> 99

\* Python's x <= y on strings: by code point, a proper prefix first
RECURSIVE StrLeq(_, _)
StrLeq(x, y) ==
    IF x = <<>> THEN TRUE
    ELSE IF y = <<>> THEN FALSE
    ELSE IF Head(x) = Head(y) THEN StrLeq(Tail(x), Tail(y))
    ELSE CharCode(Head(x)) < CharCode(Head(y))

\* mutant: the two handles are joined without being sorted
ChatId_unsorted(user1, user2) == Chars(user1) \o <<"_">> \o Chars(user2)

\* "_".join(sorted([user1, user2]))
ChatId(user1, user2) ==
    IF StrLeq(Chars(user1), Chars(user2))
    THEN Chars(user1) \o <<"_">> \o Chars(user2)
    ELSE Chars(user2) \o <<"_">> \o Chars(user1)

\* list.sort(key=lambda x: x['timestamp']): a stable sort.  The timestamps
\* are ISO strings of one fixed layout, whose string order is the order of
\* the clock readings.
RECURSIVE SortByTimestamp(_)
SortByTimestamp(lst) ==
    IF lst = <<>> THEN <<>>
    ELSE LET front == SortByTimestamp(SubSeq(lst, 1, Len(lst) - 1))
             m == lst[Len(lst)]
             k == Cardinality({i \in DOMAIN front :
                                  front[i].timestamp <= m.timestamp})
         IN SubSeq(front, 1, k) \o <<m>> \o SubSeq(front, k + 1, Len(front))

\* get_chat_messages(user1, user2)
get_chat_messages(user1, user2) ==
    SortByTimestamp(
        SelectSeq(messages, LAMBDA m : m.chat_id = ChatId(user1, user2)))

\* sum(1 for m in msgs if m.get('recipient') == username
\*                       and not m.get('read', False))
UnreadIn(msgs, username) ==
    Cardinality({i \in DOMAIN msgs :
                    msgs[i].recipient = username /\ ~msgs[i].read})

\* get_unread_messages_count(username)
get_unread_messages_count(username) == UnreadIn(messages, username)

\* mutant: the message is stored as read
NewMessage_read(sender, recipient, now) ==
    [chat_id |-> ChatId(sender, recipient),
     sender |-> sender, recipient |-> recipient,
     text |-> "hi", video_id |-> NoVideo,
     timestamp |-> now, read |-> TRUE]

\* the dictionary send_message inserts
NewMessage(sender, recipient, now) ==
    [chat_id |-> ChatId(sender, recipient),
     sender |-> sender, recipient |-> recipient,
     text |-> "hi", video_id |-> NoVideo,
     timestamp |-> now, read |-> FALSE]

\* send_message(sender, recipient, message_text): the message is built,
\* with its chat_id and the clock reading, before the store is called.  The
\* 'id' of a message (create_id("msg")) is taken to be unlike any other
\* message's and is left out.
SendMessage_build(s) ==
    \E sender \in universe.users[s], recipient \in universe.handles :
        /\ Begin(s)
        /\ sender # recipient
        /\ Goto(s, "sm1",
                [Fresh("send_message", sender, recipient, NoVideo)
                    EXCEPT !.message = NewMessage(sender, recipient, clock)])
        /\ chain' = NoChain
        /\ UNCHANGED <<env, db, crashed>>

\* db.insert('messages', message); add_notification(recipient, ...)
SendMessage_insert(s) ==
    /\ pc[s] = "sm1"
    /\ messages' = Append(messages, loc[s].message)
    /\ CallNotify(s, loc[s], loc[s].other,
                  <<"sent you a message", loc[s].user>>,
                  "chat", loc[s].user, "idle")
    /\ UNCHANGED <<env, accounts, videos, interactions, budget, crashed, chain>>

\* mutant: opening a chat marks the messages received in it as read
OpenChat_marks(s) ==
    \E username \in universe.users[s], current_chat \in universe.handles :
        /\ Begin(s)
        /\ username # current_chat
        /\ FinishCall(s, Fresh("open_chat", username, current_chat, NoVideo),
                      "returned")
        /\ messages' =
              [i \in DOMAIN messages |->
                  IF /\ messages[i].chat_id = ChatId(username, current_chat)
                     /\ messages[i].recipient = username
                  THEN [messages[i] EXCEPT !.read = TRUE]
                  ELSE messages[i]]
        /\ chain' = NoChain
        /\ UNCHANGED <<env, accounts, videos, interactions, crashed>>

\* show_messages_page with a chat selected: messages =
\* get_chat_messages(st.session_state.username, current_chat) is read and
\* drawn; nothing is written
OpenChat(s) ==
    \E username \in universe.users[s], current_chat \in universe.handles :
        /\ Begin(s)
        /\ username # current_chat
        /\ FinishCall(s, Fresh("open_chat", username, current_chat, NoVideo),
                      "returned")
        /\ chain' = NoChain
        /\ UNCHANGED <<env, db, crashed>>

\* datetime.now() moves on
Tick ==
    /\ clock < MaxClock
    /\ clock' = clock + 1
    /\ UNCHANGED <<use_cloud, next_id, universe, db, pc, loc, budget, crashed,
                   last, chain>>

(***************************************************************************)
(* A session's script run is abandoned between two store calls (the        *)
(* process is killed, the store raises, the browser tab reruns the         *)
(* script): the store calls already made stay made.                        *)
(***************************************************************************)
Crash(s) ==
    /\ ~Idle(s)
    /\ Finish(s, "crashed")
    /\ crashed' = TRUE
    /\ UNCHANGED <<env, db, budget, chain>>

(***************************************************************************)
(* Concurrent sessions: three registered accounts and one video of "c",    *)
(* the state after three create_account calls and one upload_video.  Two   *)
(* sessions follow, unfollow and like: the first is logged in as "a", the  *)
(* second as "a" too (a second tab) or as "b".                             *)
(***************************************************************************)
Init ==
    /\ use_cloud \in BOOLEAN
    /\ accounts = [h \in {"a", "b", "c"} |-> NewAccount("pw", 0)]
    /\ videos = <<NewVideo(create_id(1), "c", 0)>>
    /\ interactions = <<>>
    /\ messages = <<>>
    /\ clock = 0
    /\ next_id = 1
    /\ pc = [s \in SessionIds |-> "idle"]
    /\ loc = [s \in SessionIds |-> NoLocals]
    /\ \E second \in {"a", "b"} :
          universe = [users |-> (1 :> {"a"}) @@ (2 :> {second}),
                      handles |-> {"a", "b", "c"}, passwords |-> {"pw"},
                      missing |-> {}, history |-> FALSE]
    /\ budget = MaxOps
    /\ crashed = FALSE
    /\ last = [s \in SessionIds |-> NoCall]
    /\ chain = NoChain

Next ==
    \E s \in SessionIds :
        \/ FollowUser_get_follower(s)
        \/ FollowUser_get_following(s)
        \/ FollowUser_update_follower(s)
        \/ FollowUser_update_following(s)
        \/ UnfollowUser_get_follower(s)
        \/ UnfollowUser_get_following(s)
        \/ UnfollowUser_update_follower(s)
        \/ UnfollowUser_update_following(s)
        \/ ToggleLike_get_interactions(s)
        \/ ToggleLike_insert(s)
        \/ ToggleLike_get_video(s)
        \/ ToggleLike_update_interactions(s)
        \/ ToggleLike_update_video(s)
        \/ AddNotification_get(s)
        \/ AddNotification_update(s)
        \/ Crash(s)

Spec == Init /\ [][Next]_vars

(***************************************************************************)
(* One session: every handler runs to completion before the next starts.   *)
(* "a" and "b" are registered and "a" has uploaded one video; "c" is not   *)
(* registered yet.  The run keeps the history variables last and chain.    *)
(***************************************************************************)
SeqInit ==
    /\ use_cloud \in BOOLEAN
    /\ accounts = [h \in {"a", "b"} |-> NewAccount("pw", 0)]
    /\ videos = <<NewVideo(create_id(1), "a", 0)>>
    /\ interactions = <<>>
    /\ messages = <<>>
    /\ clock = 0
    /\ next_id = 1
    /\ pc = [s \in SessionIds |-> "idle"]
    /\ loc = [s \in SessionIds |-> NoLocals]
    /\ universe = [users |-> [s \in SessionIds |-> {"a", "b"}],
                   handles |-> {"a", "b", "c"}, passwords |-> {"pw"},
                   missing |-> {"v0"}, history |-> TRUE]
    /\ budget = MaxSeqOps
    /\ crashed = FALSE
    /\ last = [s \in SessionIds |-> NoCall]
    /\ chain = NoChain

SeqNext ==
    \/ CreateAccount_get(1)
    \/ CreateAccount_insert(1)
    \/ UploadVideo_media(1)
    \/ UploadVideo_insert(1)
    \/ UploadVideo_get_account(1)
    \/ AddComment_get_video(1)
    \/ AddComment_update(1)
    \/ DeleteVideo_get_all(1)
    \/ DeleteVideo_delete(1)
    \/ FollowUser_get_follower(1)
    \/ FollowUser_get_following(1)
    \/ FollowUser_update_follower(1)
    \/ FollowUser_update_following(1)
    \/ UnfollowUser_get_follower(1)
    \/ UnfollowUser_get_following(1)
    \/ UnfollowUser_update_follower(1)
    \/ UnfollowUser_update_following(1)
    \/ ToggleLike_get_interactions(1)
    \/ ToggleLike_insert(1)
    \/ ToggleLike_get_video(1)
    \/ ToggleLike_update_interactions(1)
    \/ ToggleLike_update_video(1)
    \/ AddNotification_get(1)
    \/ AddNotification_update(1)

SeqSpec == SeqInit /\ [][SeqNext]_vars

(***************************************************************************)
(* Notification logs near the cap: "b" holds a log of NotifCap entries or  *)
(* a few less, left by as many follow_user("a", "b") / unfollow_user       *)
(* rounds; one session goes on following, liking, sending messages and     *)
(* opening the notifications page.                                         *)
(***************************************************************************)
Prefill(n) ==
    [i \in 1..n |->
        [NewEntry(<<"started following you", "a">>, i, "profile", "a")
            EXCEPT !.read = (i % 2 = 0)]]

NotifInit ==
    /\ use_cloud \in BOOLEAN
    /\ \E n \in (NotifCap - PrefillSlack)..NotifCap :
          /\ accounts = ("a" :> NewAccount("pw", 0))
                        @@ ("b" :> [NewAccount("pw", 0) EXCEPT
                                       !.notifications = Prefill(n)])
          /\ clock = n + 1
    /\ videos = <<NewVideo(create_id(1), "b", 0)>>
    /\ interactions = <<>>
    /\ messages = <<>>
    /\ next_id = 1
    /\ pc = [s \in SessionIds |-> "idle"]
    /\ loc = [s \in SessionIds |-> NoLocals]
    /\ universe = [users |-> [s \in SessionIds |-> {"a", "b"}],
                   handles |-> {"a", "b"}, passwords |-> {"pw"},
                   missing |-> {}, history |-> TRUE]
    /\ budget = MaxNotifOps
    /\ crashed = FALSE
    /\ last = [s \in SessionIds |-> NoCall]
    /\ chain = NoChain

NotifNext ==
    \/ FollowUser_get_follower(1)
    \/ FollowUser_get_following(1)
    \/ FollowUser_update_follower(1)
    \/ FollowUser_update_following(1)
    \/ UnfollowUser_get_follower(1)
    \/ UnfollowUser_get_following(1)
    \/ UnfollowUser_update_follower(1)
    \/ UnfollowUser_update_following(1)
    \/ ToggleLike_get_interactions(1)
    \/ ToggleLike_insert(1)
    \/ ToggleLike_get_video(1)
    \/ ToggleLike_update_interactions(1)
    \/ ToggleLike_update_video(1)
    \/ SendMessage_build(1)
    \/ SendMessage_insert(1)
    \/ MarkNotificationsRead_get(1)
    \/ MarkNotificationsRead_update(1)
    \/ AddNotification_get(1)
    \/ AddNotification_update(1)

NotifSpec == NotifInit /\ [][NotifNext]_vars

(***************************************************************************)
(* Messaging: four registered handles, two of them with an underscore (any *)
(* non-empty string is accepted as a username); two sessions send messages *)
(* and open chats while the clock moves on, one logged in as "a" and one   *)
(* as "c".                                                                 *)
(***************************************************************************)
MsgInit ==
    /\ use_cloud \in BOOLEAN
    /\ accounts = [h \in {"a", "a_b", "b_c", "c"} |-> NewAccount("pw", 0)]
    /\ videos = <<>>
    /\ interactions = <<>>
    /\ messages = <<>>
    /\ clock = 0
    /\ next_id = 0
    /\ pc = [s \in SessionIds |-> "idle"]
    /\ loc = [s \in SessionIds |-> NoLocals]
    /\ universe = [users |-> (1 :> {"a"}) @@ (2 :> {"c"}),
                   handles |-> {"a", "a_b", "b_c", "c"}, passwords |-> {"pw"},
                   missing |-> {}, history |-> FALSE]
    /\ budget = MaxMsgOps
    /\ crashed = FALSE
    /\ last = [s \in SessionIds |-> NoCall]
    /\ chain = NoChain

MsgNext ==
    \/ Tick
    \/ \E s \in SessionIds :
          \/ SendMessage_build(s)
          \/ SendMessage_insert(s)
          \/ OpenChat(s)
          \/ AddNotification_get(s)
          \/ AddNotification_update(s)

MsgSpec == MsgInit /\ [][MsgNext]_vars

(***************************************************************************)
(* Sign-up and login: "a" and "b" are registered with the password "pw"    *)
(* and "a" follows "b" (the state after two create_account calls and       *)
(* follow_user("a", "b")); "c" is not registered.  One session signs up    *)
(* and logs in with either of two passwords.                               *)
(***************************************************************************)
AuthInit ==
    /\ use_cloud \in BOOLEAN
    /\ accounts =
          ("a" :> [NewAccount("pw", 0) EXCEPT !.following = <<"b">>])
          @@ ("b" :> [NewAccount("pw", 0) EXCEPT
                         !.followers = <<"a">>,
                         !.notifications =
                             <<NewEntry(<<"started following you", "a">>, 0,
                                        "profile", "a")>>])
    /\ videos = <<>>
    /\ interactions = <<>>
    /\ messages = <<>>
    /\ clock = 1
    /\ next_id = 0
    /\ pc = [s \in SessionIds |-> "idle"]
    /\ loc = [s \in SessionIds |-> NoLocals]
    /\ universe = [users |-> [s \in SessionIds |-> {"a", "b"}],
                   handles |-> {"a", "b", "c"}, passwords |-> {"pw", "pw2"},
                   missing |-> {}, history |-> TRUE]
    /\ budget = MaxAuthOps
    /\ crashed = FALSE
    /\ last = [s \in SessionIds |-> NoCall]
    /\ chain = NoChain

AuthNext ==
    \/ CreateAccount_get(1)
    \/ CreateAccount_insert(1)
    \/ Login(1)

AuthSpec == AuthInit /\ [][AuthNext]_vars

(***************************************************************************)
(* Concurrent sign-up: from the same state, two sessions sign up and log   *)
(* in, their store calls interleaved.                                      *)
(***************************************************************************)
SignupNext ==
    \E s \in SessionIds :
        \/ CreateAccount_get(s)
        \/ CreateAccount_insert(s)
        \/ Login(s)

SignupSpec == AuthInit /\ [][SignupNext]_vars

(***************************************************************************)
(* Follow and unfollow calls of every kind: "a" and "b" are registered,    *)
(* "c" is not; one session calls follow_user and unfollow_user with the    *)
(* follower "a" or "c" and any of the three handles as the other.          *)
(***************************************************************************)
FrameInit ==
    /\ use_cloud \in BOOLEAN
    /\ accounts = [h \in {"a", "b"} |-> NewAccount("pw", 0)]
    /\ videos = <<>>
    /\ interactions = <<>>
    /\ messages = <<>>
    /\ clock = 0
    /\ next_id = 0
    /\ pc = [s \in SessionIds |-> "idle"]
    /\ loc = [s \in SessionIds |-> NoLocals]
    /\ universe = [users |-> [s \in SessionIds |-> {"a", "c"}],
                   handles |-> {"a", "b", "c"}, passwords |-> {"pw"},
                   missing |-> {}, history |-> TRUE]
    /\ budget = MaxFrameOps
    /\ crashed = FALSE
    /\ last = [s \in SessionIds |-> NoCall]
    /\ chain = NoChain

FrameNext ==
    \/ FollowUser_get_follower(1)
    \/ FollowUser_get_following(1)
    \/ FollowUser_update_follower(1)
    \/ FollowUser_update_following(1)
    \/ UnfollowUser_get_follower(1)
    \/ UnfollowUser_get_following(1)
    \/ UnfollowUser_update_follower(1)
    \/ UnfollowUser_update_following(1)
    \/ AddNotification_get(1)
    \/ AddNotification_update(1)

FrameSpec == FrameInit /\ [][FrameNext]_vars

(***************************************************************************)
(* Deletion: "a" and "b" are registered and "a" has uploaded one video.    *)
(* Two sessions, one logged in as "a" and one as "b", upload, like,        *)
(* comment and press the delete buttons of their profile pages, their      *)
(* store calls interleaved.                                                *)
(***************************************************************************)
DeleteInit ==
    /\ use_cloud \in BOOLEAN
    /\ accounts = [h \in {"a", "b"} |-> NewAccount("pw", 0)]
    /\ videos = <<NewVideo(create_id(1), "a", 0)>>
    /\ interactions = <<>>
    /\ messages = <<>>
    /\ clock = 0
    /\ next_id = 1
    /\ pc = [s \in SessionIds |-> "idle"]
    /\ loc = [s \in SessionIds |-> NoLocals]
    /\ universe = [users |-> (1 :> {"a"}) @@ (2 :> {"b"}),
                   handles |-> {"a", "b"}, passwords |-> {"pw"},
                   missing |-> {}, history |-> TRUE]
    /\ budget = MaxDeleteOps
    /\ crashed = FALSE
    /\ last = [s \in SessionIds |-> NoCall]
    /\ chain = NoChain

DeleteNext ==
    \E s \in SessionIds :
        \/ UploadVideo_media(s)
        \/ UploadVideo_insert(s)
        \/ UploadVideo_get_account(s)
        \/ AddComment_get_video(s)
        \/ AddComment_update(s)
        \/ ToggleLike_get_interactions(s)
        \/ ToggleLike_insert(s)
        \/ ToggleLike_get_video(s)
        \/ ToggleLike_update_interactions(s)
        \/ ToggleLike_update_video(s)
        \/ DeleteVideo_get_all(s)
        \/ DeleteVideo_delete(s)
        \/ AddNotification_get(s)
        \/ AddNotification_update(s)

DeleteSpec == DeleteInit /\ [][DeleteNext]_vars

(***************************************************************************)
(* Properties.                                                             *)
(***************************************************************************)
\* A is in followers(B) exactly when B is in following(A)
Symmetric ==
    \A A \in DOMAIN accounts, B \in DOMAIN accounts :
        Contains(accounts[B].followers, A) <=> Contains(accounts[A].following, B)

\* the number of accounts whose liked list holds the video
Likers(video_id) ==
    Cardinality({u \in DOMAIN interactions :
                    Contains(interactions[u].likes, video_id)})

CounterEqualsLikers ==
    \A i \in DOMAIN videos : videos[i].likes = Likers(videos[i].id)

Running(ops) == \E s \in SessionIds : loc[s].op \in ops

\* C1: whenever no follow_user or unfollow_user call is in progress, the
\* follow graph is symmetric, also when the calls of concurrent sessions
\* interleave and when a call is abandoned between its two account updates.
C1_SymmetricWhenQuiet ==
    ~Running({"follow_user", "unfollow_user"}) => Symmetric

\* C2: once the toggle_like calls of two sessions logged in as different
\* accounts have completed (none is in progress and none was abandoned), the
\* like counter of every video is the number of accounts whose liked list
\* holds it: no increment or decrement of an interleaved call is lost.
C2_CounterEqualsLikersWhenQuiet ==
    (/\ universe.users[1] # universe.users[2]
     /\ ~crashed
     /\ ~Running({"toggle_like"}))
    => CounterEqualsLikers

\* C7: in every reachable state, the states between the store calls of
\* interleaved toggle_like calls included, the like counter of every video is
\* a non-negative integer.
C7_LikesNonNegative ==
    \A i \in DOMAIN videos : videos[i].likes \in Nat

\* an unlike that read the counter at 0 is about to write
C7_Witness ==
    \E s \in SessionIds :
        /\ pc[s] = "t4"
        /\ ~Contains(loc[s].likes, loc[s].video_id)
        /\ loc[s].video_likes = 0
        /\ HasVideo(loc[s].video_id)
        /\ GetVideo(loc[s].video_id).likes = 0

\* C3: with the handlers run one after the other, after any sequence of
\* create_account, upload_video, toggle_like, add_comment, follow_user,
\* unfollow_user and delete calls, the like counter of every stored video is
\* the number of accounts whose liked list holds it.
C3_SeqCounterEqualsLikers ==
    AllIdle => CounterEqualsLikers

\* two accounts like one video
C3_Witness ==
    /\ AllIdle
    /\ \E i \in DOMAIN videos :
          videos[i].likes = 2 /\ Likers(videos[i].id) = 2

\* C4: follow_user(A, A) changes nothing, so no account's followers or
\* following list ever holds the account's own handle.
C4_NoSelfFollow ==
    \A A \in DOMAIN accounts :
        /\ ~Contains(accounts[A].followers, A)
        /\ ~Contains(accounts[A].following, A)

\* C5: for distinct registered A and B, with the handlers run one after the
\* other: right after follow_user(A, B), B is in following(A) and A is in
\* followers(B); right after unfollow_user(A, B), neither holds.
C5_FollowUnfollowPost ==
    \A s \in SessionIds :
        LET A == last[s].user
            B == last[s].other
        IN (AllIdle /\ A # B /\ A \in DOMAIN accounts /\ B \in DOMAIN accounts)
           => /\ last[s].op = "follow_user" =>
                    /\ Contains(accounts[A].following, B)
                    /\ Contains(accounts[B].followers, A)
              /\ last[s].op = "unfollow_user" =>
                    /\ ~Contains(accounts[A].following, B)
                    /\ ~Contains(accounts[B].followers, A)

\* "a" has unfollowed "b" after having followed "b"
C5_Witness ==
    /\ AllIdle
    /\ last[1].op = "unfollow_user" /\ last[1].user = "a" /\ last[1].other = "b"
    /\ \E i \in DOMAIN accounts["b"].notifications :
          accounts["b"].notifications[i].text = <<"started following you", "a">>
    /\ ~Contains(accounts["a"].following, "b")

\* C6: two consecutive toggle_like calls of one account on one existing
\* video, with no other call in between, leave the account's liked-state for
\* the video and the video's like counter as they were before the first.
C6_ToggleTwiceRestores ==
    (AllIdle /\ chain.n = 2)
    => /\ HasVideo(chain.video_id)
       /\ Liked(chain.user, chain.video_id) = chain.liked_before
       /\ GetVideo(chain.video_id).likes = chain.likes_before

\* an unlike followed by a like, of a video the caller does not own
C6_Witness ==
    /\ AllIdle
    /\ chain.n = 2
    /\ chain.liked_before
    /\ chain.likes_before = 1
    /\ GetVideo(chain.video_id).username # chain.user

\* C8: no notification log ever holds more than 50 entries, and
\* add_notification leaves the log as the last 50 of (the log before, then
\* the new unread entry): the new entry is last, the entries kept are the
\* newest of the log before, in their order.
C8_LogCapFifo ==
    /\ [](\A u \in DOMAIN accounts : Len(accounts[u].notifications) <= NotifCap)
    /\ [][\A s \in SessionIds :
            (pc[s] = "n2" /\ pc'[s] # "n2")
            => LET u == loc[s].target
                   old == accounts[u].notifications
                   new == accounts'[u].notifications
                   drop == Len(old) + 1 - Len(new)
               IN /\ Len(new) = (IF Len(old) < NotifCap
                                 THEN Len(old) + 1 ELSE NotifCap)
                  /\ new[Len(new)].read = FALSE
                  /\ new[Len(new)].text = loc[s].entry.text
                  /\ new[Len(new)].link_type = loc[s].entry.link_type
                  /\ new[Len(new)].link_id = loc[s].entry.link_id
                  /\ \A i \in 1..(Len(new) - 1) : new[i] = old[i + drop]
       ]_vars

\* a full log has lost its oldest entry to an append
C8_Witness ==
    /\ AllIdle
    /\ Len(accounts["b"].notifications) = NotifCap
    /\ accounts["b"].notifications[1].timestamp = 2
    /\ accounts["b"].notifications[NotifCap].timestamp > NotifCap

\* the stored messages exchanged between A and B, in storage order
Between(A, B) ==
    SelectSeq(messages,
              LAMBDA m : {m.sender, m.recipient} = {A, B})

\* C9: get_chat_messages(A, B) returns exactly the stored messages whose
\* sender and recipient are A and B, and no message of another pair of
\* handles.
C9_ThreadOfPairOnly ==
    \A A \in universe.handles, B \in universe.handles :
        LET h == get_chat_messages(A, B) IN
        /\ \A i \in DOMAIN h : {h[i].sender, h[i].recipient} = {A, B}
        /\ Len(h) = Len(Between(A, B))

\* C10: get_chat_messages(A, B) and get_chat_messages(B, A) are the same
\* sequence, sorted by timestamp ascending, the messages of one timestamp in
\* the order in which they were stored.
C10_HistorySymmetricSorted ==
    \A A \in universe.handles, B \in universe.handles :
        LET h == get_chat_messages(A, B)
            stored == SelectSeq(messages,
                                LAMBDA m : m.chat_id = ChatId(A, B))
        IN /\ h = get_chat_messages(B, A)
           /\ \A i \in 1..(Len(h) - 1) : h[i].timestamp <= h[i + 1].timestamp
           /\ \A t \in 0..MaxClock :
                 SelectSeq(h, LAMBDA m : m.timestamp = t)
                 = SelectSeq(stored, LAMBDA m : m.timestamp = t)

\* a thread whose two messages were stored against their timestamps
C10_Witness ==
    LET h == get_chat_messages("a", "c") IN
    /\ Len(h) = 2
    /\ h[1].timestamp < h[2].timestamp
    /\ h # Between("a", "c")
    /\ h[1].sender # h[2].sender

\* the viewer follows the author of the video
Followed(viewer, video) ==
    /\ viewer \in DOMAIN accounts
    /\ Contains(accounts[viewer].following, video.username)

\* C11: get_feed_videos(V) never holds one video identifier twice, and every
\* video whose author is in V's following list comes before every video
\* whose author is not.
C11_FeedNoDuplicateFollowedFirst ==
    \A V \in universe.handles :
        LET feed == get_feed_videos(V) IN
        /\ \A i \in DOMAIN feed, j \in DOMAIN feed :
               feed[i].id = feed[j].id => i = j
        /\ \A i \in DOMAIN feed, j \in DOMAIN feed :
               (Followed(V, feed[i]) /\ ~Followed(V, feed[j])) => i < j

\* a followed author's video stands before a video with more likes
C11_Witness ==
    \E V \in universe.handles :
        LET feed == get_feed_videos(V) IN
        /\ Len(feed) = 2
        /\ Followed(V, feed[1]) /\ ~Followed(V, feed[2])
        /\ feed[1].likes < feed[2].likes

\* C19: for every viewer, registered or not, get_feed_videos(V) holds every
\* stored video exactly once, the viewer's own videos included: the feed is
\* a permutation of the stored videos.
C19_FeedIsPermutation ==
    \A V \in universe.handles \cup {NoHandle} :
        LET feed == get_feed_videos(V) IN
        /\ Len(feed) = Len(videos)
        /\ \A i \in DOMAIN videos :
               Cardinality({j \in DOMAIN feed : feed[j] = videos[i]}) = 1

\* a registered viewer's feed holds its own video, in another order than
\* the store's, and an unregistered viewer gets the two videos too
C19_Witness ==
    /\ Len(videos) = 2
    /\ \E V \in DOMAIN accounts :
          /\ get_feed_videos(V) # videos
          /\ \E j \in DOMAIN videos : get_feed_videos(V)[j].username = V
    /\ \E V \in universe.handles \ DOMAIN accounts :
          Len(get_feed_videos(V)) = 2

\* the entries of u's log that announce the video
UploadEntries(log, video_id) ==
    Cardinality({i \in DOMAIN log :
                    /\ log[i].link_type = "video"
                    /\ log[i].link_id = video_id
                    /\ log[i].text[1] = "posted a new video"})

\* C12: a successful upload_video stores a video with 0 likes, 0 views and
\* no comments and appends exactly one notification that links the new
\* video to the log of each account in the owner's followers list as it
\* was when upload_video was called, and nothing to any other log; no later
\* step gives an account that was not a follower then (one that follows
\* later included) a notification for that video.
C12_UploadNotifiesFollowersOnce ==
    /\ [](\A s \in SessionIds :
            (AllIdle /\ last[s].op = "upload_video"
                     /\ last[s].status = "returned")
            => LET video_id == last[s].video_id
                   was == last[s].before.accounts
                   owner == last[s].user
               IN /\ HasVideo(video_id)
                  /\ GetVideo(video_id).username = owner
                  /\ GetVideo(video_id).likes = 0
                  /\ GetVideo(video_id).views = 0
                  /\ GetVideo(video_id).comments = <<>>
                  /\ \A u \in DOMAIN accounts :
                        LET n == IF Contains(was[owner].followers, u)
                                 THEN 1 ELSE 0
                        IN /\ UploadEntries(accounts[u].notifications,
                                            video_id) = n
                           /\ Len(accounts[u].notifications)
                              = Len(was[u].notifications) + n)
    /\ [][\A u \in DOMAIN accounts, n \in DOMAIN VideoIds :
            UploadEntries(accounts'[u].notifications, VideoIds[n])
            > UploadEntries(accounts[u].notifications, VideoIds[n])
            => \E s \in SessionIds :
                  /\ loc[s].op = "upload_video"
                  /\ loc[s].video_id = VideoIds[n]
                  /\ Contains(loc[s].before.accounts[loc[s].user].followers, u)
       ]_vars

\* "a" has uploaded a video while "b", and only "b", was following "a"
C12_Witness ==
    /\ AllIdle
    /\ last[1].op = "upload_video" /\ last[1].status = "returned"
    /\ last[1].user = "a"
    /\ last[1].before.accounts["a"].followers = <<"b">>
    /\ UploadEntries(accounts["b"].notifications, last[1].video_id) = 1
    /\ UploadEntries(accounts["a"].notifications, last[1].video_id) = 0

\* the document of the video in a snapshot of the videos
VideoIn(vids, video_id) ==
    vids[CHOOSE i \in DOMAIN vids : vids[i].id = video_id]

InVideos(vids, video_id) == \E i \in DOMAIN vids : vids[i].id = video_id

\* the liked list of the account in a snapshot of the interactions held the
\* video
LikedIn(inter, username, video_id) ==
    /\ username \in DOMAIN inter
    /\ Contains(inter[username].likes, video_id)

\* log is the log was with one unread entry of this text and link appended
AppendedTo(log, was, text, link_type, link_id) ==
    /\ Len(log) = Len(was) + 1
    /\ SubSeq(log, 1, Len(was)) = was
    /\ log[Len(log)].text = text
    /\ log[Len(log)].link_type = link_type
    /\ log[Len(log)].link_id = link_id
    /\ log[Len(log)].read = FALSE

\* C13: a toggle_like call on an existing video that turns the like on
\* appends exactly one notification to the log of the video's owner when
\* the caller is not the owner, and leaves every other log as it was; when
\* the caller is the owner, or when the call turns the like off, every log
\* is left as it was.
C13_LikeNotifiesOwnerOnce ==
    \A s \in SessionIds :
        (/\ AllIdle
         /\ last[s].op = "toggle_like"
         /\ InVideos(last[s].before.videos, last[s].video_id))
        => LET was == last[s].before
               video_id == last[s].video_id
               username == last[s].user
               owner == VideoIn(was.videos, video_id).username
               on == ~LikedIn(was.interactions, username, video_id)
           IN \A u \in DOMAIN accounts :
                 IF on /\ u = owner /\ username # owner
                 THEN AppendedTo(accounts[u].notifications,
                                 was.accounts[u].notifications,
                                 <<"liked your video", username>>,
                                 "video", video_id)
                 ELSE accounts[u].notifications = was.accounts[u].notifications

\* "b" has just taken back its like of a video of "a": the one notification
\* of the like is all that "a" holds
C13_Witness ==
    /\ AllIdle
    /\ last[1].op = "toggle_like" /\ last[1].user = "b"
    /\ InVideos(last[1].before.videos, last[1].video_id)
    /\ VideoIn(last[1].before.videos, last[1].video_id).username = "a"
    /\ LikedIn(last[1].before.interactions, "b", last[1].video_id)
    /\ Len(accounts["a"].notifications) = 1
    /\ accounts["a"].notifications[1].text = <<"liked your video", "b">>

\* log is the last NotifCap entries of the log was with one unread entry of
\* this text and link appended
AppendedCapped(log, was, text, link_type, link_id) ==
    LET drop == Len(was) + 1 - Len(log) IN
    /\ Len(log) = (IF Len(was) < NotifCap THEN Len(was) + 1 ELSE NotifCap)
    /\ \A i \in 1..(Len(log) - 1) : log[i] = was[i + drop]
    /\ log[Len(log)].text = text
    /\ log[Len(log)].link_type = link_type
    /\ log[Len(log)].link_id = link_id
    /\ log[Len(log)].read = FALSE

\* C14: send_message(S, R, text) between registered accounts stores exactly
\* one more message, unread, from S to R in the thread of S and R; appends
\* exactly one notification to R's log and leaves every other log as it
\* was; and raises get_unread_messages_count(R) by exactly 1 while the
\* unread count of every other account stays what it was.
C14_SendMessageEffects ==
    \A s \in SessionIds :
        (/\ AllIdle
         /\ last[s].op = "send_message"
         /\ last[s].user \in DOMAIN last[s].before.accounts
         /\ last[s].other \in DOMAIN last[s].before.accounts)
        => LET was == last[s].before
               S == last[s].user
               R == last[s].other
               m == messages[Len(messages)]
           IN /\ Len(messages) = Len(was.messages) + 1
              /\ SubSeq(messages, 1, Len(was.messages)) = was.messages
              /\ m.sender = S /\ m.recipient = R /\ m.read = FALSE
              /\ Len(get_chat_messages(S, R))
                 = Cardinality({i \in DOMAIN was.messages :
                                   was.messages[i].chat_id = ChatId(S, R)}) + 1
              /\ Contains(get_chat_messages(S, R), m)
              /\ \A u \in DOMAIN accounts :
                    /\ IF u = R
                       THEN AppendedCapped(accounts[u].notifications,
                                           was.accounts[u].notifications,
                                           <<"sent you a message", S>>,
                                           "chat", S)
                       ELSE accounts[u].notifications
                            = was.accounts[u].notifications
                    /\ get_unread_messages_count(u)
                       = UnreadIn(was.messages, u) + (IF u = R THEN 1 ELSE 0)

\* "a" has sent "b" a second message, and "b"'s log was full before
C14_Witness ==
    /\ AllIdle
    /\ last[1].op = "send_message"
    /\ last[1].user = "a" /\ last[1].other = "b"
    /\ Len(last[1].before.accounts["b"].notifications) = NotifCap
    /\ get_unread_messages_count("b") = 2
    /\ get_unread_messages_count("a") = 0

\* C15: create_account(handle, secret) for a handle that is registered
\* returns failure and leaves the collection of accounts, the existing
\* record included, as it was; for a handle that is not registered it
\* returns success, and the new record holds hash_password(secret) and empty
\* followers, following and notifications, every other record being left
\* as it was.
C15_CreateAccountDuplicate ==
    \A s \in SessionIds :
        (AllIdle /\ last[s].op = "create_account")
        => LET was == last[s].before.accounts
               username == last[s].user
           IN IF username \in DOMAIN was
              THEN /\ last[s].result[1] = "False"
                   /\ accounts = was
              ELSE /\ last[s].result[1] = "True"
                   /\ DOMAIN accounts = DOMAIN was \cup {username}
                   /\ accounts[username].password
                      = hash_password(last[s].password)
                   /\ accounts[username].followers = <<>>
                   /\ accounts[username].following = <<>>
                   /\ accounts[username].notifications = <<>>
                   /\ \A u \in DOMAIN was : accounts[u] = was[u]

\* a second sign-up as "b", with another password, has failed
C15_Witness ==
    /\ AllIdle
    /\ last[1].op = "create_account" /\ last[1].user = "b"
    /\ last[1].password = "pw2"
    /\ last[1].result = <<"False", "Username already exists">>
    /\ accounts["b"].password = hash_password("pw")
    /\ accounts["b"].followers = <<"a">>

\* C17: a failed login returns the same pair (status, message) whether the
\* handle is not registered or is registered with another password: the
\* pair of the failed login just made is the pair of every login that
\* would fail now.
C17_LoginFailsUniformly ==
    \A s \in SessionIds :
        (AllIdle /\ last[s].op = "login" /\ last[s].result[1] = "False")
        => \A h \in universe.handles, p \in universe.passwords :
              login(h, p)[1] = "False" => login(h, p) = last[s].result

\* the liked list of an account, empty when it has no interactions document
LikesOf(inter, username) ==
    IF username \in DOMAIN inter THEN inter[username].likes ELSE <<>>

\* C16: toggle_like and add_comment called with an identifier that names no
\* stored video report the failure to their caller, by raising or by a
\* return value other than the None of a successful call, and leave every
\* liked list, every video (its like counter and comments) and every
\* notification log as they were.
C16_MissingVideoReported ==
    \A s \in SessionIds :
        (/\ AllIdle
         /\ last[s].op \in {"toggle_like", "add_comment"}
         /\ ~InVideos(last[s].before.videos, last[s].video_id))
        => /\ last[s].status = "raised" \/ last[s].result # None
           /\ videos = last[s].before.videos
           /\ accounts = last[s].before.accounts
           /\ \A u \in universe.handles :
                 LikesOf(interactions, u)
                 = LikesOf(last[s].before.interactions, u)

\* C18: a video leaves the store only in the db.delete step of a session
\* whose logged-in handle is the video's owner; no step of a session logged
\* in as another handle removes it.
C18_OnlyOwnerDeletes ==
    [][\A i \in DOMAIN videos :
          ~InVideos(videos', videos[i].id)
          => \E s \in SessionIds :
                /\ pc[s] = "d2" /\ pc'[s] = "idle"
                /\ loc[s].op = "delete_video"
                /\ loc[s].video_id = videos[i].id
                /\ loc[s].user = videos[i].username
                /\ loc[s].user \in universe.users[s]
      ]_vars

\* "a" has deleted its video, and has then found no delete button for the
\* video "b" uploaded: that video is still stored
C18_Witness ==
    /\ AllIdle
    /\ ~HasVideo(create_id(1))
    /\ HasVideo(create_id(2)) /\ GetVideo(create_id(2)).username = "b"
    /\ last[1].op = "delete_video" /\ last[1].video_id = create_id(2)

\* C20: mark_notifications_read(account) leaves the account's log with the
\* entries it had, in their order, each with read = true and otherwise as
\* it was, and every other account as it was, so that
\* get_unread_notifications_count(account) is 0 right after the call; a call
\* on a log whose entries are all read (a second call with no append in
\* between) leaves the log as it was.
C20_MarkReadIdempotent ==
    \A s \in SessionIds :
        (/\ AllIdle
         /\ last[s].op = "mark_notifications_read"
         /\ last[s].user \in DOMAIN last[s].before.accounts)
        => LET was == last[s].before.accounts
               username == last[s].user
               log == accounts[username].notifications
           IN /\ DOMAIN log = DOMAIN was[username].notifications
              /\ \A i \in DOMAIN log :
                    /\ log[i].read = TRUE
                    /\ log[i] = [was[username].notifications[i]
                                    EXCEPT !.read = TRUE]
              /\ get_unread_notifications_count(username) = 0
              /\ \A u \in DOMAIN was \ {username} : accounts[u] = was[u]
              /\ (\A i \in DOMAIN log : was[username].notifications[i].read)
                 => accounts = was
              /\ MarkAllRead(log) = log

\* "b" has opened the notifications page twice in a row: the first call
\* marked the unread entries of a full log, the second found all of them read
C20_Witness ==
    /\ AllIdle
    /\ last[1].op = "mark_notifications_read" /\ last[1].user = "b"
    /\ Len(accounts["b"].notifications) = NotifCap
    /\ \A i \in DOMAIN last[1].before.accounts["b"].notifications :
          last[1].before.accounts["b"].notifications[i].read
    /\ accounts["b"].notifications[NotifCap].timestamp > NotifCap

\* the log holds a notification of this text
HasEntry(log, text) == \E i \in DOMAIN log : log[i].text = text

\* C21: no notification that a completed add_notification call appended is
\* lost to an overwrite by the interleaved call of another session: once
\* every call has completed, the owner of a video holds the notification of
\* the like of each other account that likes it, and a followed account
\* holds the notification of each account that follows it (the logs of the
\* run stay far below the cap of 50, so none is evicted).
C21_NoNotificationLost ==
    (AllIdle /\ ~crashed)
    => /\ \A u \in DOMAIN accounts, i \in DOMAIN videos :
             (Liked(u, videos[i].id) /\ videos[i].username # u)
             => HasEntry(accounts[videos[i].username].notifications,
                         <<"liked your video", u>>)
       /\ \A A \in DOMAIN accounts, B \in DOMAIN accounts :
             Contains(accounts[A].following, B)
             => HasEntry(accounts[B].notifications,
                         <<"started following you", A>>)

\* C22: the comment of every completed add_comment call on a video that is
\* still stored is in the video's comment list once every call has
\* completed, also when the store calls of the add_comment calls of two
\* sessions on the same video interleave.
C22_BothCommentsKept ==
    \A s \in SessionIds :
        (/\ AllIdle
         /\ last[s].op = "add_comment"
         /\ InVideos(last[s].before.videos, last[s].video_id)
         /\ HasVideo(last[s].video_id))
        => \E i \in DOMAIN GetVideo(last[s].video_id).comments :
              GetVideo(last[s].video_id).comments[i].username = last[s].user

\* C23: of the create_account calls of concurrent sessions for one handle
\* at most one returns success, and the stored account keeps the
\* credential hash of a call that returned success: no later or concurrent
\* sign-up replaces it.
C23_OneSignupWins ==
    AllIdle
    => /\ \A s \in SessionIds, t \in SessionIds :
             (/\ s # t
              /\ last[s].op = "create_account"
              /\ last[t].op = "create_account"
              /\ last[s].user = last[t].user)
             => ~(last[s].result[1] = "True" /\ last[t].result[1] = "True")
       /\ \A s \in SessionIds :
             (last[s].op = "create_account" /\ last[s].result[1] = "True")
             => accounts[last[s].user].password
                = hash_password(last[s].password)

\* A and B are registered and A's following list holds B
FollowsIn(accs, A, B) ==
    /\ A \in DOMAIN accs
    /\ B \in DOMAIN accs
    /\ Contains(accs[A].following, B)

\* C24: follow_user(A, B) called when A's following list holds B, or when A
\* or B is not registered, leaves every account (its lists and its log) as
\* it was; a follow_user call that adds the edge appends exactly one
\* notification to B's log and leaves every other log as it was; and
\* unfollow_user(A, B) called when A does not follow B leaves every account
\* as it was.
C24_FollowFrame ==
    \A s \in SessionIds :
        LET was == last[s].before.accounts
            A == last[s].user
            B == last[s].other
        IN /\ (AllIdle /\ last[s].op = "follow_user")
              => IF \/ A \notin DOMAIN was
                    \/ B \notin DOMAIN was
                    \/ FollowsIn(was, A, B)
                 THEN accounts = was
                 ELSE \A u \in DOMAIN accounts :
                         IF u = B
                         THEN AppendedTo(accounts[u].notifications,
                                         was[u].notifications,
                                         <<"started following you", A>>,
                                         "profile", A)
                         ELSE accounts[u].notifications = was[u].notifications
           /\ (AllIdle /\ last[s].op = "unfollow_user"
                       /\ ~FollowsIn(was, A, B))
              => accounts = was

\* "a", who follows "b" already, has called follow_user("a", "b") again
C24_Witness ==
    /\ AllIdle
    /\ last[1].op = "follow_user" /\ last[1].user = "a" /\ last[1].other = "b"
    /\ FollowsIn(last[1].before.accounts, "a", "b")
    /\ Len(accounts["b"].notifications) = 1
    /\ accounts["b"].followers = <<"a">>

\* C25: in get_feed_videos(V) the videos whose author V does not follow
\* stand in non-increasing order of their like counts, and those of one
\* like count stand in their storage order, so that the feed is a function
\* of the stored state and the viewer alone.
C25_TrendingOrderStable ==
    \A V \in universe.handles :
        LET feed == get_feed_videos(V) IN
        \A i \in DOMAIN feed, j \in DOMAIN feed :
            (i < j /\ ~Followed(V, feed[i]) /\ ~Followed(V, feed[j]))
            => /\ feed[i].likes >= feed[j].likes
               /\ feed[i].likes = feed[j].likes
                  => VideoIndex(feed[i].id) < VideoIndex(feed[j].id)

\* two videos have one like each, and a viewer who follows nobody gets them
\* in their storage order
C25_Witness ==
    /\ Len(videos) = 2
    /\ videos[1].likes = 1 /\ videos[2].likes = 1
    /\ \E V \in DOMAIN accounts :
          /\ accounts[V].following = <<>>
          /\ get_feed_videos(V) = videos

\* C26: whenever no follow_user or unfollow_user call is in progress, also
\* after the interleaved follow_user calls of two sessions for one pair
\* (A, B), no followers list and no following list holds a handle more than
\* once (so that upload_video, which notifies each member of the followers
\* list, notifies no follower twice).
C26_NoDuplicateFollowers ==
    ~Running({"follow_user", "unfollow_user"})
    => \A A \in DOMAIN accounts, B \in DOMAIN accounts :
          /\ Count(accounts[A].followers, B) <= 1
          /\ Count(accounts[A].following, B) <= 1

\* C27: no step sets the read flag of a stored message: in every state
\* every stored message is unread and get_unread_messages_count(u) is the
\* number of stored messages whose recipient is u, and no step, the
\* opening of the chat that holds the messages included, lowers
\* get_unread_messages_count(u).
C27_ReadFlagNeverSet ==
    /\ [](/\ \A i \in DOMAIN messages : messages[i].read = FALSE
          /\ \A u \in universe.handles :
                get_unread_messages_count(u)
                = Cardinality({i \in DOMAIN messages :
                                  messages[i].recipient = u}))
    /\ [][\A u \in universe.handles :
            UnreadIn(messages', u) >= UnreadIn(messages, u)]_vars

\* two calls have been made and have completed, and one message is stored:
\* the other call opened a chat, while "c" holds an unread message of "a"
C27_Witness ==
    /\ AllIdle
    /\ budget = MaxMsgOps - 2
    /\ Len(messages) = 1
    /\ messages[1].sender = "a" /\ messages[1].recipient = "c"
    /\ get_unread_messages_count("c") = 1

====
